---------------------------- MODULE Spec2Model ----------------------------
(***************************************************************************)
(* A model of bevy_lookup_curve: the ordered knot sequence of a            *)
(* LookupCurve, its mutators (add_knot, modify_knot, delete_knot), its     *)
(* neighbour accessors (prev_knot, next_knot), the knot ids handed out by  *)
(* unique_knot_id, also to concurrent threads, the knot searches of        *)
(* knot_search.rs, the evaluation lookup / lookup_cached with its weighted *)
(* cubic solver, and the loading of a curve from its file.                 *)
(*                                                                         *)
(* f32 values are modelled by exact rationals: a knot coordinate is an     *)
(* integer, a lookup result is a fraction [num, den] in lowest terms.      *)
(* Comparisons of coordinates are exact in f32, so every index computed    *)
(* by a search is the one the code computes; rounding of interpolated      *)
(* values is not modelled.                                                 *)
(***************************************************************************)
EXTENDS Integers, Sequences, FiniteSets, TLC

VARIABLES knots, cache, cached_index, last, next_id, settings, alloc

vars == <<knots, cache, cached_index, last, next_id, settings, alloc>>

---------------------------------------------------------------------------
(* Bounds of the model. *)

\* Longest knot sequence a curve is grown to.
MaxKnots == 3
\* Longest vector handed to LookupCurve::new.
MaxNew == 2
\* Longest curve that is only evaluated.
MaxCurve == 2
\* Longest slice handed directly to the KnotSearch methods.
MaxSlice == 4
\* Largest index a caller passes to modify_knot / delete_knot or puts into
\* a search hint beyond the end of the sequence (len + MaxOver).
MaxOver == 1

\* Longest curve evaluated around its interior knots.
MaxEval == 3
\* Threads that call unique_knot_id.
MaxThreads == 3
\* Most knots in the text of a curve file.
MaxFile == 2
\* Largest id unique_knot_id hands out.
MaxIds == 3

\* Knot x coordinates are even, so that a query can fall strictly between
\* two neighbouring knots; a query at 0 or 1 is outside the range of a
\* curve whose first knot is at 2 or 4, and likewise at the right end.
KnotXs == {0, 2, 4}
KnotYs == {0, 1}
QueryXs == 0..4

---------------------------------------------------------------------------
(* Option<usize> *)

None == <<>>
Some(i) == <<i>>
is_none(o) == o = None
unwrap(o) == o[1]

---------------------------------------------------------------------------
(* Data model: TangentMode, Tangent, KnotInterpolation, Knot. *)

TangentMode == {"Free", "Aligned"}

KnotInterpolation == {"Constant", "Linear", "Cubic"}

TangentDefault == [slope |-> 0, mode |-> "Aligned", weight |-> None]

\* Knot { position, interpolation, ..Default::default() } with a given id.
MkKnot(x, y, interp, id) ==
    [position |-> [x |-> x, y |-> y],
     interpolation |-> interp,
     left_tangent |-> TangentDefault,
     right_tangent |-> TangentDefault,
     id |-> id]

\* The knots of the curves that are only evaluated: every position and
\* every interpolation.
KnotInputs ==
    {MkKnot(x, y, ip, 1) : x \in KnotXs, y \in KnotYs, ip \in KnotInterpolation}

\* The knots a caller hands to new, add_knot and modify_knot of a curve it
\* goes on mutating: every x and every interpolation, on a zigzag of y, so
\* that neighbouring segments differ in value.
ZigZag(x) == (x \div 2) % 2
CurveKnots ==
    {MkKnot(x, ZigZag(x), ip, 1) : x \in KnotXs, ip \in KnotInterpolation}

\* The knots of the slices handed directly to the searches, which read
\* position.x only.
SliceKnots == {MkKnot(x, 0, "Linear", 1) : x \in KnotXs}

---------------------------------------------------------------------------
(* Vec<Knot> primitives. *)

\* Vec::insert(i, v): shifts everything from i to the right.
VecInsert(s, i, v) == SubSeq(s, 1, i) \o <<v>> \o SubSeq(s, i + 1, Len(s))

\* Vec::remove(i).
VecRemove(s, i) == SubSeq(s, 1, i) \o SubSeq(s, i + 2, Len(s))

\* self.knots[i] = v
VecSet(s, i, v) == [s EXCEPT ![i + 1] = v]

\* s[lo..hi] (0-based, hi exclusive).
Slice(s, lo, hi) == SubSeq(s, lo + 1, hi)

IsSorted(s) ==
    \A i \in 1..(Len(s) - 1) : s[i].position.x <= s[i + 1].position.x

\* <[T]>::partition_point(|k| k.position.x < x): binary search for the
\* first index whose knot does not satisfy the predicate.
RECURSIVE PartitionLoop(_, _, _, _)
PartitionLoop(s, x, left, right) ==
    IF left >= right THEN left
    ELSE LET mid == left + ((right - left) \div 2)
         IN  IF s[mid + 1].position.x < x
             THEN PartitionLoop(s, x, mid + 1, right)
             ELSE PartitionLoop(s, x, left, mid)

partition_point(s, x) == PartitionLoop(s, x, 0, Len(s))

\* Iterator::position(|k| k.position.x >= x): None or Some(first index).
RECURSIVE PositionGeFrom(_, _, _)
PositionGeFrom(s, x, i) ==
    IF i >= Len(s) THEN None
    ELSE IF s[i + 1].position.x >= x THEN Some(i)
    ELSE PositionGeFrom(s, x, i + 1)

position_ge(s, x) == PositionGeFrom(s, x, 0)

\* iter().rev().position(|k| k.position.x < x): counts from the end.
RECURSIVE RevPositionLtFrom(_, _, _)
RevPositionLtFrom(s, x, p) ==
    IF p >= Len(s) THEN None
    ELSE IF s[Len(s) - p].position.x < x THEN Some(p)
    ELSE RevPositionLtFrom(s, x, p + 1)

rev_position_lt(s, x) == RevPositionLtFrom(s, x, 0)


---------------------------------------------------------------------------
(* usize arithmetic and the ways a call can fail.                          *)
(* A failed operation yields a negative marker instead of an index.        *)

\* `a - b` with a < b: a panic when overflow checks are compiled in, the
\* wrapped value usize::MAX otherwise.  Never an index of the slice.
Underflow == 0 - 1
\* Option::unwrap on None: a panic.
UnwrapNone == 0 - 2
\* Indexing or Vec::remove past the end: a panic.
IndexOOB == 0 - 3

IsIndex(r) == r >= 0

usize_sub(a, b) ==
    IF ~IsIndex(a) THEN a
    ELSE IF a >= b THEN a - b
    ELSE Underflow

---------------------------------------------------------------------------
(* knot_search.rs: impl KnotSearch for [Knot] *)

\* A variant of search_knots_binary whose predicate is k.position.x <= x:
\* at an exact match it returns the matching knot itself.
RECURSIVE PartitionLoopLe(_, _, _, _)
PartitionLoopLe(s, x, left, right) ==
    IF left >= right THEN left
    ELSE LET mid == left + ((right - left) \div 2)
         IN  IF s[mid + 1].position.x <= x
             THEN PartitionLoopLe(s, x, mid + 1, right)
             ELSE PartitionLoopLe(s, x, left, mid)

search_knots_binary_le(s, x) == usize_sub(PartitionLoopLe(s, x, 0, Len(s)), 1)

search_knots_binary(s, x) == usize_sub(partition_point(s, x), 1)

\* A variant of search_knots_linear that looks for the first knot with
\* position.x > x instead of >= x.
RECURSIVE PositionGtFrom(_, _, _)
PositionGtFrom(s, x, i) ==
    IF i >= Len(s) THEN None
    ELSE IF s[i + 1].position.x > x THEN Some(i)
    ELSE PositionGtFrom(s, x, i + 1)

search_knots_linear_gt(s, x) ==
    LET p == PositionGtFrom(s, x, 0)
    IN  IF is_none(p) THEN UnwrapNone ELSE usize_sub(unwrap(p), 1)

search_knots_linear(s, x) ==
    LET p == position_ge(s, x)
    IN  IF is_none(p) THEN UnwrapNone ELSE usize_sub(unwrap(p), 1)

search_knots_linear_rev(s, x) ==
    LET p == rev_position_lt(s, x)
    IN  IF is_none(p) THEN UnwrapNone
        ELSE usize_sub(usize_sub(Len(s), unwrap(p)), 1)

\* A variant of search_knots that returns the partition point itself, the
\* first knot that is not left of x.
search_knots_upper(s, x) == partition_point(s, x)

search_knots(s, x) == search_knots_binary(s, x)

\* cached_index.unwrap() > self.len() - 2, for a hint that is Some.
\* A hint holding the wrapped usize::MAX compares greater than any length.
HintIsFaulty(s, ci) == unwrap(ci) = Underflow \/ unwrap(ci) > Len(s) - 2

\* A variant of search_knots_with_cache that does not add cached_index to
\* the result of the forward scan of the suffix.
search_knots_with_cache_no_offset(s, x, ci) ==
    IF is_none(ci) THEN [i |-> search_knots(s, x), path |-> "full"]
    ELSE IF Len(s) < 2 THEN [i |-> Underflow, path |-> "panic"]
    ELSE IF HintIsFaulty(s, ci)
    THEN [i |-> search_knots(s, x), path |-> "full"]
    ELSE LET c == unwrap(ci)
             cached_knot == s[c + 1]
         IN  IF x <= cached_knot.position.x
             THEN [i |-> search_knots_linear_rev(Slice(s, 0, c), x),
                   path |-> "rev"]
             ELSE [i |-> search_knots_linear(Slice(s, c, Len(s)), x),
                   path |-> "fwd"]

\* A variant of search_knots_with_cache that trusts every hint that is
\* Some: a hint at the last knot is scanned from, a hint past the end
\* indexes outside the slice.
search_knots_with_cache_trusting(s, x, ci) ==
    IF is_none(ci) THEN [i |-> search_knots(s, x), path |-> "full"]
    ELSE IF unwrap(ci) = Underflow \/ unwrap(ci) >= Len(s)
    THEN [i |-> IndexOOB, path |-> "panic"]
    ELSE LET c == unwrap(ci)
             cached_knot == s[c + 1]
         IN  IF x <= cached_knot.position.x
             THEN [i |-> search_knots_linear_rev(Slice(s, 0, c), x),
                   path |-> "rev"]
             ELSE LET r == search_knots_linear(Slice(s, c, Len(s)), x)
                  IN  [i |-> IF IsIndex(r) THEN c + r ELSE r, path |-> "fwd"]

\* The index search_knots_with_cache computes (or the marker of its
\* failure), and the branch that computed it: "full" (search_knots), "rev"
\* (reverse scan of the prefix) or "fwd" (forward scan of the suffix).
search_knots_with_cache(s, x, ci) ==
    IF is_none(ci) THEN [i |-> search_knots(s, x), path |-> "full"]
    ELSE IF Len(s) < 2
    THEN \* self.len() - 2 underflows: a panic with overflow checks; without
         \* them the comparison is false and the scan below panics
         \* (index past the end, or unwrap of None on a one-knot slice).
         [i |-> Underflow, path |-> "panic"]
    ELSE IF HintIsFaulty(s, ci)
    THEN [i |-> search_knots(s, x), path |-> "full"]
    ELSE LET c == unwrap(ci)
             cached_knot == s[c + 1]
         IN  IF x <= cached_knot.position.x
             THEN [i |-> search_knots_linear_rev(Slice(s, 0, c), x),
                   path |-> "rev"]
             ELSE LET r == search_knots_linear(Slice(s, c, Len(s)), x)
                  IN  [i |-> IF IsIndex(r) THEN c + r ELSE r, path |-> "fwd"]

\* A variant of HintAfter that stores the index only after the full search
\* and leaves the hint as it was after a linear scan.
HintAfter_keep_on_scan(ci, r) ==
    IF r.path \in {"rev", "fwd"} THEN {ci}
    ELSE IF IsIndex(r.i) THEN {Some(r.i)}
    ELSE IF r.i = Underflow /\ r.path = "full" THEN {ci, Some(Underflow)}
    ELSE {ci}

\* The values *cached_index can hold when search_knots_with_cache is left:
\* Some(i) after a return; unchanged after a panic.  An underflow in the
\* full search panics or, without overflow checks, returns usize::MAX,
\* which is then stored.
HintAfter(ci, r) ==
    IF IsIndex(r.i) THEN {Some(r.i)}
    ELSE IF r.i = Underflow /\ r.path = "full" THEN {ci, Some(Underflow)}
    ELSE {ci}

---------------------------------------------------------------------------
(* lib.rs: LookupCurve construction and mutation *)

\* The number of knots of a sorted s whose x is <= x: where a stable sort
\* places a later element of that x.
RECURSIVE UpperBound(_, _, _)
UpperBound(s, x, i) ==
    IF i >= Len(s) \/ s[i + 1].position.x > x THEN i
    ELSE UpperBound(s, x, i + 1)

\* knots.sort_by(|a, b| a.position.x.partial_cmp(&b.position.x)): a stable
\* sort, equal x keep their order.
RECURSIVE sort_by_x(_)
sort_by_x(v) ==
    IF v = <<>> THEN <<>>
    ELSE LET init == sort_by_x(SubSeq(v, 1, Len(v) - 1))
             k == v[Len(v)]
         IN  VecInsert(init, UpperBound(init, k.position.x, 0), k)

\* LookupCurve::new(knots).knots
new(v) == sort_by_x(v)

\* LookupCurve::default().knots
default == <<>>

\* A variant of add_knot that also appends a knot whose x equals the current
\* maximum x.
add_knot_append_ge(s, knot) ==
    IF Len(s) = 0 \/ knot.position.x >= s[Len(s)].position.x
    THEN [knots |-> Append(s, knot), ret |-> Len(s)]
    ELSE LET i == partition_point(s, knot.position.x)
         IN  [knots |-> VecInsert(s, i, knot), ret |-> i]

\* A variant of add_knot that inserts behind the knots of the same x and
\* still returns the partition point.
add_knot_after_equals(s, knot) ==
    IF Len(s) = 0 \/ knot.position.x > s[Len(s)].position.x
    THEN [knots |-> Append(s, knot), ret |-> Len(s)]
    ELSE LET i == partition_point(s, knot.position.x)
         IN  [knots |-> VecInsert(s, UpperBound(s, knot.position.x, 0), knot),
              ret |-> i]

\* add_knot: the new sequence and the returned index.
add_knot(s, knot) ==
    IF Len(s) = 0 \/ knot.position.x > s[Len(s)].position.x
    THEN [knots |-> Append(s, knot), ret |-> Len(s)]
    ELSE LET i == partition_point(s, knot.position.x)
         IN  [knots |-> VecInsert(s, i, knot), ret |-> i]

\* A variant of modify_knot that inserts at new_i even when the removal of
\* the old entry has shifted the target one place to the left (Vec::insert
\* panics when that index lies past the end).
modify_knot_no_shift(s, i, new_value) ==
    IF i >= Len(s) THEN [knots |-> s, ret |-> IndexOOB]
    ELSE LET old_value == s[i + 1]
         IN  IF old_value.position.x = new_value.position.x
             THEN [knots |-> VecSet(s, i, new_value), ret |-> i]
             ELSE LET new_i == partition_point(s, new_value.position.x)
                  IN  IF new_i = i
                      THEN [knots |-> VecSet(s, i, new_value), ret |-> i]
                      ELSE LET t == VecRemove(s, i)
                           IN  IF new_i > Len(t)
                               THEN [knots |-> t, ret |-> IndexOOB]
                               ELSE [knots |-> VecInsert(t, new_i, new_value),
                                     ret |-> new_i]

\* A variant of modify_knot without the test for an unchanged x: it always
\* looks for the insertion point.
modify_knot_always_search(s, i, new_value) ==
    IF i >= Len(s) THEN [knots |-> s, ret |-> IndexOOB]
    ELSE LET new_i == partition_point(s, new_value.position.x)
         IN  IF new_i = i
             THEN [knots |-> VecSet(s, i, new_value), ret |-> i]
             ELSE LET insert_i == IF i < new_i THEN new_i - 1 ELSE new_i
                  IN  [knots |-> VecInsert(VecRemove(s, i), insert_i,
                                           new_value),
                       ret |-> insert_i]

\* A variant of modify_knot that relocates by exchanging the entries at i
\* and at the insertion index.
modify_knot_swap(s, i, new_value) ==
    IF i >= Len(s) THEN [knots |-> s, ret |-> IndexOOB]
    ELSE LET old_value == s[i + 1]
         IN  IF old_value.position.x = new_value.position.x
             THEN [knots |-> VecSet(s, i, new_value), ret |-> i]
             ELSE LET new_i == partition_point(s, new_value.position.x)
                  IN  IF new_i = i
                      THEN [knots |-> VecSet(s, i, new_value), ret |-> i]
                      ELSE LET insert_i == IF i < new_i THEN new_i - 1
                                           ELSE new_i
                           IN  [knots |-> VecSet(VecSet(s, i, s[insert_i + 1]),
                                                 insert_i, new_value),
                                ret |-> insert_i]

\* modify_knot: the new sequence and the returned index, or a panic.
modify_knot(s, i, new_value) ==
    IF i >= Len(s) THEN [knots |-> s, ret |-> IndexOOB]
    ELSE LET old_value == s[i + 1]
         IN  IF old_value.position.x = new_value.position.x
             THEN [knots |-> VecSet(s, i, new_value), ret |-> i]
             ELSE LET new_i == partition_point(s, new_value.position.x)
                  IN  IF new_i = i
                      THEN [knots |-> VecSet(s, i, new_value), ret |-> i]
                      ELSE LET insert_i == IF i < new_i THEN new_i - 1
                                           ELSE new_i
                           IN  [knots |-> VecInsert(VecRemove(s, i),
                                                    insert_i, new_value),
                                ret |-> insert_i]

\* A variant of delete_knot that returns without effect when the index is
\* past the end.
delete_knot_lenient(s, i) ==
    IF i >= Len(s) THEN [knots |-> s, ret |-> i]
    ELSE [knots |-> VecRemove(s, i), ret |-> i]

\* delete_knot: the new sequence, or a panic.
delete_knot(s, i) ==
    IF i >= Len(s) THEN [knots |-> s, ret |-> IndexOOB]
    ELSE [knots |-> VecRemove(s, i), ret |-> i]

\* The result of a call that returns an Option: the value, or a panic.
Returned(v) == [panicked |-> FALSE, value |-> v]
Panicked == [panicked |-> TRUE, value |-> None]

\* prev_knot(i)
prev_knot(s, i) ==
    IF i > 0
    THEN IF i - 1 < Len(s) THEN Returned(Some(s[i])) ELSE Panicked
    ELSE Returned(None)

\* next_knot(i).  On an empty curve self.knots.len() - 1 underflows: a panic
\* with overflow checks; without them the bound is usize::MAX, the test
\* passes and self.knots[i + 1] panics.
next_knot(s, i) ==
    IF usize_sub(Len(s), 1) = Underflow THEN Panicked
    ELSE IF i < Len(s) - 1 THEN Returned(Some(s[i + 2]))
    ELSE Returned(None)

---------------------------------------------------------------------------
(* f32 values as exact fractions [num, den], den > 0, in lowest terms.     *)
(* den = 0 stands for the non-finite results of a division by zero.        *)

Abs(n) == IF n < 0 THEN 0 - n ELSE n

RECURSIVE Gcd(_, _)
Gcd(a, b) == IF b = 0 THEN a ELSE Gcd(b, a % b)

Frac(n, d) ==
    IF d = 0 THEN [num |-> 0, den |-> 0]
    ELSE LET g == Gcd(Abs(n), Abs(d))
             sgn == IF d < 0 THEN 0 - 1 ELSE 1
         IN  [num |-> sgn * (n \div g), den |-> sgn * (d \div g)]

F32(n) == [num |-> n, den |-> 1]

FAdd(a, b) == Frac(a.num * b.den + b.num * a.den, a.den * b.den)
FSub(a, b) == Frac(a.num * b.den - b.num * a.den, a.den * b.den)
FMul(a, b) == Frac(a.num * b.num, a.den * b.den)
FDiv(a, b) == Frac(a.num * b.den, a.den * b.num)
\* A comparison with a non-finite operand is false, as for NaN.
FLe(a, b) == a.den # 0 /\ b.den # 0 /\ a.num * b.den <= b.num * a.den
FAbs(a) == [num |-> Abs(a.num), den |-> a.den]

\* The value of a call that panicked.
Panic == [panic |-> TRUE]

---------------------------------------------------------------------------
(* lib.rs: evaluation *)

\* max_iters_default(), max_error_default() = 1e-5
max_iters_default == 20
max_error_default == Frac(1, 100000)

\* The max_iters and max_error of LookupCurve::default() and ::new().
DefaultSettings ==
    [max_iters |-> max_iters_default, max_error |-> max_error_default]

\* Knot::compute_bezier_to: the four control points, as <<x, y>> pairs.
compute_bezier_to(knot_a, knot_b) ==
    LET slope_a == F32(knot_a.right_tangent.slope)
        weight_a == IF is_none(knot_a.right_tangent.weight) THEN Frac(1, 3)
                    ELSE unwrap(knot_a.right_tangent.weight)
        slope_b == F32(knot_b.left_tangent.slope)
        weight_b == IF is_none(knot_b.left_tangent.weight) THEN Frac(1, 3)
                    ELSE unwrap(knot_b.left_tangent.weight)
        ax == F32(knot_a.position.x)
        ay == F32(knot_a.position.y)
        bx == F32(knot_b.position.x)
        by == F32(knot_b.position.y)
        dx == FSub(bx, ax)
    IN  << <<ax, ay>>,
           <<FAdd(ax, FMul(weight_a, dx)),
             FAdd(ay, FMul(FMul(weight_a, slope_a), dx))>>,
           <<FSub(bx, FMul(weight_b, dx)),
             FSub(by, FMul(FMul(weight_b, slope_b), dx))>>,
           <<bx, by>> >>

\* One row of the characteristic matrix applied to one axis of the points.
CoeffRow(p, axis, c) ==
    FAdd(FAdd(FAdd(FMul(p[1][axis], F32(c[1])), FMul(p[2][axis], F32(c[2]))),
              FMul(p[3][axis], F32(c[3]))),
         FMul(p[4][axis], F32(c[4])))

\* CubicSegment::from_bezier_points / coefficients, multiplier 1.0.
from_bezier_points(p) ==
    LET char_matrix == << <<1, 0, 0, 0>>,
                          <<0 - 3, 3, 0, 0>>,
                          <<3, 0 - 6, 3, 0>>,
                          <<0 - 1, 3, 0 - 3, 1>> >>
    IN  [k \in 1..4 |->
            <<CoeffRow(p, 1, char_matrix[k]), CoeffRow(p, 2, char_matrix[k])>>]

\* CubicSegment::position(t), one axis: a + b t + c t^2 + d t^3.
position(coeff, axis, t) ==
    FAdd(FAdd(FAdd(coeff[1][axis], FMul(coeff[2][axis], t)),
              FMul(coeff[3][axis], FMul(t, t))),
         FMul(coeff[4][axis], FMul(t, FMul(t, t))))

\* CubicSegment::velocity(t), one axis: b + 2 c t + 3 d t^2.
velocity(coeff, axis, t) ==
    FAdd(FAdd(coeff[2][axis], FMul(FMul(coeff[3][axis], F32(2)), t)),
         FMul(FMul(coeff[4][axis], F32(3)), FMul(t, t)))

\* The loop of find_y_given_x with `iters` iterations still to run: the y
\* of pos_guess when it is left, the values of t_guess at which position
\* was evaluated, in order, and whether the loop was left by `break`.
RECURSIVE NewtonLoop(_, _, _, _, _, _)
NewtonLoop(coeff, x, max_error, iters, t_guess, pos_y) ==
    IF iters = 0 THEN [y |-> pos_y, ts |-> <<>>, broke |-> FALSE]
    ELSE LET pos_x == position(coeff, 1, t_guess)
             new_y == position(coeff, 2, t_guess)
             error == FSub(pos_x, x)
         IN  IF FLe(FAbs(error), max_error)
             THEN [y |-> new_y, ts |-> <<t_guess>>, broke |-> TRUE]
             ELSE LET slope == velocity(coeff, 1, t_guess)
                      r == NewtonLoop(coeff, x, max_error, iters - 1,
                                      FSub(t_guess, FDiv(error, slope)), new_y)
                  IN  [y |-> r.y, ts |-> <<t_guess>> \o r.ts,
                       broke |-> r.broke]

\* A variant of find_y_given_x that returns the y at the initial guess.
find_y_given_x_unrefined(coeff, x, max_error, max_iters) ==
    IF max_iters = 0 THEN F32(0) ELSE position(coeff, 2, x)

\* CubicSegment::find_y_given_x: pos_guess starts as Vec2::ZERO.
find_y_given_x(coeff, x, max_error, max_iters) ==
    NewtonLoop(coeff, x, max_error, max_iters, x, F32(0)).y

weighted_cubic_interp(knot_a, knot_b, x, max_error, max_iters) ==
    find_y_given_x(from_bezier_points(compute_bezier_to(knot_a, knot_b)),
                   F32(x), max_error, max_iters)

\* A variant of unweighted_cubic_interp whose coefficient c is x3 - 2 x2.
unweighted_cubic_interp_h11(knot_a, knot_b, x0) ==
    LET x == Frac(x0 - knot_a.position.x,
                  knot_b.position.x - knot_a.position.x)
        dx == F32(knot_b.position.x - knot_a.position.x)
        m0 == FMul(F32(knot_a.right_tangent.slope), dx)
        m1 == FMul(F32(knot_b.left_tangent.slope), dx)
        x2 == FMul(x, x)
        x3 == FMul(x2, x)
        a == FAdd(FSub(FMul(F32(2), x3), FMul(F32(3), x2)), F32(1))
        b == FAdd(FSub(x3, FMul(F32(2), x2)), x)
        c == FSub(x3, FMul(F32(2), x2))
        d == FAdd(FMul(F32(0 - 2), x3), FMul(F32(3), x2))
    IN  FAdd(FAdd(FAdd(FMul(a, F32(knot_a.position.y)), FMul(b, m0)),
                  FMul(c, m1)),
             FMul(d, F32(knot_b.position.y)))

\* A variant of unweighted_cubic_interp that takes m0 from the left tangent
\* of knot_b and m1 from the right tangent of knot_a.
unweighted_cubic_interp_swapped(knot_a, knot_b, x0) ==
    LET x == Frac(x0 - knot_a.position.x,
                  knot_b.position.x - knot_a.position.x)
        dx == F32(knot_b.position.x - knot_a.position.x)
        m0 == FMul(F32(knot_b.left_tangent.slope), dx)
        m1 == FMul(F32(knot_a.right_tangent.slope), dx)
        x2 == FMul(x, x)
        x3 == FMul(x2, x)
        a == FAdd(FSub(FMul(F32(2), x3), FMul(F32(3), x2)), F32(1))
        b == FAdd(FSub(x3, FMul(F32(2), x2)), x)
        c == FSub(x3, x2)
        d == FAdd(FMul(F32(0 - 2), x3), FMul(F32(3), x2))
    IN  FAdd(FAdd(FAdd(FMul(a, F32(knot_a.position.y)), FMul(b, m0)),
                  FMul(c, m1)),
             FMul(d, F32(knot_b.position.y)))

unweighted_cubic_interp(knot_a, knot_b, x0) ==
    LET x == Frac(x0 - knot_a.position.x,
                  knot_b.position.x - knot_a.position.x)
        dx == F32(knot_b.position.x - knot_a.position.x)
        m0 == FMul(F32(knot_a.right_tangent.slope), dx)
        m1 == FMul(F32(knot_b.left_tangent.slope), dx)
        x2 == FMul(x, x)
        x3 == FMul(x2, x)
        a == FAdd(FSub(FMul(F32(2), x3), FMul(F32(3), x2)), F32(1))
        b == FAdd(FSub(x3, FMul(F32(2), x2)), x)
        c == FSub(x3, x2)
        d == FAdd(FMul(F32(0 - 2), x3), FMul(F32(3), x2))
    IN  FAdd(FAdd(FAdd(FMul(a, F32(knot_a.position.y)), FMul(b, m0)),
                  FMul(c, m1)),
             FMul(d, F32(knot_b.position.y)))

\* A variant of lerp_y that runs from b to a.
lerp_y_reversed(knot_a, knot_b, s) ==
    FAdd(F32(knot_b.position.y),
         FMul(F32(knot_a.position.y - knot_b.position.y), s))

\* Vec2::lerp(a.position, b.position, s).y
lerp_y(knot_a, knot_b, s) ==
    FAdd(F32(knot_a.position.y),
         FMul(F32(knot_b.position.y - knot_a.position.y), s))

\* A variant of Interpolate that dispatches on the interpolation of the
\* right knot of the segment.
Interpolate_by_right_knot(s, i, x) ==
    IF ~IsIndex(i) \/ i >= Len(s) THEN Panic
    ELSE LET knot_a == s[i + 1]
         IN  IF i + 1 >= Len(s) THEN Panic
             ELSE LET knot_b == s[i + 2]
                  IN  IF knot_b.interpolation = "Constant"
                      THEN F32(knot_a.position.y)
                      ELSE IF knot_b.interpolation = "Linear"
                      THEN lerp_y(knot_a, knot_b,
                                  Frac(x - knot_a.position.x,
                                       knot_b.position.x - knot_a.position.x))
                      ELSE IF ~is_none(knot_a.right_tangent.weight)
                              \/ ~is_none(knot_b.left_tangent.weight)
                      THEN weighted_cubic_interp(knot_a, knot_b, x,
                                                 settings.max_error,
                                                 settings.max_iters)
                      ELSE unweighted_cubic_interp(knot_a, knot_b, x)

\* A variant of Interpolate that takes the weighted path when a weight is
\* present on one of the two tangents that face away from the segment.
Interpolate_outer_weights(s, i, x) ==
    IF ~IsIndex(i) \/ i >= Len(s) THEN Panic
    ELSE LET knot_a == s[i + 1]
         IN  IF knot_a.interpolation = "Constant"
             THEN F32(knot_a.position.y)
             ELSE IF i + 1 >= Len(s) THEN Panic
             ELSE LET knot_b == s[i + 2]
                  IN  IF knot_a.interpolation = "Linear"
                      THEN lerp_y(knot_a, knot_b,
                                  Frac(x - knot_a.position.x,
                                       knot_b.position.x - knot_a.position.x))
                      ELSE IF ~is_none(knot_a.left_tangent.weight)
                              \/ ~is_none(knot_b.right_tangent.weight)
                      THEN weighted_cubic_interp(knot_a, knot_b, x,
                                                 settings.max_error,
                                                 settings.max_iters)
                      ELSE unweighted_cubic_interp(knot_a, knot_b, x)

\* The `match knot_a.interpolation` of lookup_internal, for the index i the
\* search returned.
Interpolate(s, i, x) ==
    IF ~IsIndex(i) \/ i >= Len(s) THEN Panic
    ELSE LET knot_a == s[i + 1]
         IN  IF knot_a.interpolation = "Constant"
             THEN F32(knot_a.position.y)
             ELSE IF i + 1 >= Len(s) THEN Panic
             ELSE LET knot_b == s[i + 2]
                  IN  IF knot_a.interpolation = "Linear"
                      THEN lerp_y(knot_a, knot_b,
                                  Frac(x - knot_a.position.x,
                                       knot_b.position.x - knot_a.position.x))
                      ELSE IF ~is_none(knot_a.right_tangent.weight)
                              \/ ~is_none(knot_b.left_tangent.weight)
                      THEN weighted_cubic_interp(knot_a, knot_b, x,
                                                 settings.max_error,
                                                 settings.max_iters)
                      ELSE unweighted_cubic_interp(knot_a, knot_b, x)

\* The search and interpolation step of lookup_internal.
SearchAndInterpolate(s, x, use_cache, ci) ==
    LET r == IF use_cache THEN search_knots_with_cache(s, x, ci)
             ELSE [i |-> search_knots(s, x), path |-> "full"]
    IN  [y |-> Interpolate(s, r.i, x), path |-> r.path, i |-> r.i]

\* A variant of lookup_internal that returns the first knot's y only for
\* x strictly left of the first knot.
lookup_internal_strict_first(s, x, use_cache, ci) ==
    IF Len(s) = 0
    THEN [y |-> F32(0), path |-> "none", i |-> 0]
    ELSE IF Len(s) = 1 \/ x < s[1].position.x
    THEN [y |-> F32(s[1].position.y), path |-> "none", i |-> 0]
    ELSE IF x >= s[Len(s)].position.x
    THEN [y |-> F32(s[Len(s)].position.y), path |-> "none", i |-> 0]
    ELSE SearchAndInterpolate(s, x, use_cache, ci)

\* A variant of lookup_internal that returns the last knot's y only for
\* x strictly right of the last knot.
lookup_internal_strict_last(s, x, use_cache, ci) ==
    IF Len(s) = 0
    THEN [y |-> F32(0), path |-> "none", i |-> 0]
    ELSE IF Len(s) = 1 \/ x <= s[1].position.x
    THEN [y |-> F32(s[1].position.y), path |-> "none", i |-> 0]
    ELSE IF x > s[Len(s)].position.x
    THEN [y |-> F32(s[Len(s)].position.y), path |-> "none", i |-> 0]
    ELSE SearchAndInterpolate(s, x, use_cache, ci)

\* A variant of lookup_internal without the test for an empty curve: it
\* indexes knots[0] of an empty vector.
lookup_internal_no_empty_check(s, x, use_cache, ci) ==
    IF Len(s) = 0
    THEN [y |-> Panic, path |-> "none", i |-> 0]
    ELSE IF Len(s) = 1 \/ x <= s[1].position.x
    THEN [y |-> F32(s[1].position.y), path |-> "none", i |-> 0]
    ELSE IF x >= s[Len(s)].position.x
    THEN [y |-> F32(s[Len(s)].position.y), path |-> "none", i |-> 0]
    ELSE SearchAndInterpolate(s, x, use_cache, ci)

\* A variant of lookup_internal that runs the knot search before it tests
\* whether x is at or right of the last knot.
lookup_internal_eager_search(s, x, use_cache, ci) ==
    IF Len(s) = 0
    THEN [y |-> F32(0), path |-> "none", i |-> 0]
    ELSE IF Len(s) = 1 \/ x <= s[1].position.x
    THEN [y |-> F32(s[1].position.y), path |-> "none", i |-> 0]
    ELSE IF x >= s[Len(s)].position.x
    THEN LET r == SearchAndInterpolate(s, x, use_cache, ci)
         IN  [y |-> F32(s[Len(s)].position.y), path |-> r.path, i |-> r.i]
    ELSE SearchAndInterpolate(s, x, use_cache, ci)

\* lookup_internal(x, cache): the value returned (or Panic), the branch of
\* the knot search that ran ("none" when the call returned before any
\* search) and the index it found.  use_cache is FALSE for lookup and TRUE
\* for lookup_cached, whose cache holds ci.
lookup_internal(s, x, use_cache, ci) ==
    IF Len(s) = 0
    THEN [y |-> F32(0), path |-> "none", i |-> 0]
    ELSE IF Len(s) = 1 \/ x <= s[1].position.x
    THEN [y |-> F32(s[1].position.y), path |-> "none", i |-> 0]
    ELSE IF x >= s[Len(s)].position.x
    THEN [y |-> F32(s[Len(s)].position.y), path |-> "none", i |-> 0]
    ELSE SearchAndInterpolate(s, x, use_cache, ci)

lookup(s, x) == lookup_internal(s, x, FALSE, None).y

---------------------------------------------------------------------------
(* The state machine.                                                      *)
(*   knots         LookupCurve.knots                                       *)
(*   cache         LookupCache.last_knot_index of the one cache the        *)
(*                 caller shares between its lookup_cached calls           *)
(*   cached_index  the Option<usize> a caller hands to                     *)
(*                 search_knots_with_cache directly                        *)
(*   last          the call whose result the caller is looking at: its     *)
(*                 name, arguments and result; Idle between calls          *)
(*   next_id       KNOT_ID_COUNTER, the id unique_knot_id hands out next   *)
(*   settings      LookupCurve.max_iters and LookupCurve.max_error         *)
(*   alloc         the threads that build knots with Knot::default(): the  *)
(*                 ids in the order the counter handed them out, and what  *)
(*                 each thread holds                                       *)

\* All sequences over S of length 0 .. n.
SeqsUpTo(S, n) == UNION {[1..m -> S] : m \in 0..n}

Call(op, x, i, ret, hint, path) ==
    [op |-> op, x |-> x, i |-> i, ret |-> ret, hint |-> hint, path |-> path]

\* No thread is building knots.
NoAlloc == [log |-> <<>>, held |-> <<>>]

\* No call is in progress.
Idle == Call("idle", 0, 0, 0, None, "none")

\* LookupCurve::default() or LookupCurve::new(v); LookupCache::new().
Init ==
    /\ knots \in {new(v) : v \in SeqsUpTo(CurveKnots, MaxNew)}
    /\ cache = None
    /\ cached_index = None
    /\ last = Idle
    /\ next_id = 2
    /\ settings = DefaultSettings
    /\ alloc = NoAlloc

AddKnot ==
    /\ last.op = "idle"
    /\ Len(knots) < MaxKnots
    /\ \E knot \in CurveKnots :
          LET r == add_knot(knots, knot)
          IN  /\ knots' = r.knots
              /\ last' = Call("add_knot", 0, 0, r.ret, None, "none")
    /\ UNCHANGED <<cache, cached_index, next_id, settings, alloc>>

ModifyKnot ==
    /\ last.op = "idle"
    /\ \E i \in 0..(Len(knots) - 1 + MaxOver), new_value \in CurveKnots :
          LET r == modify_knot(knots, i, new_value)
          IN  /\ knots' = r.knots
              /\ last' = Call("modify_knot", 0, i, r.ret, None, "none")
    /\ UNCHANGED <<cache, cached_index, next_id, settings, alloc>>

DeleteKnot ==
    /\ last.op = "idle"
    /\ \E i \in 0..(Len(knots) - 1 + MaxOver) :
          LET r == delete_knot(knots, i)
          IN  /\ knots' = r.knots
              /\ last' = Call("delete_knot", 0, i, r.ret, None, "none")
    /\ UNCHANGED <<cache, cached_index, next_id, settings, alloc>>

Lookup ==
    /\ last.op = "idle"
    /\ \E x \in QueryXs :
          LET r == lookup_internal(knots, x, FALSE, None)
          IN  last' = Call("lookup", x, r.i, r.y, None, r.path)
    /\ UNCHANGED <<knots, cache, cached_index, next_id, settings, alloc>>

LookupCached ==
    /\ last.op = "idle"
    /\ \E x \in QueryXs :
          LET r == lookup_internal(knots, x, TRUE, cache)
          IN  /\ cache' \in (IF r.path = "none" THEN {cache}
                             ELSE HintAfter(cache, r))
              /\ last' = Call("lookup_cached", x, r.i, r.y, cache, r.path)
    /\ UNCHANGED <<knots, cached_index, next_id, settings, alloc>>

\* The caller has taken the result of its call and goes on.
Return ==
    /\ last.op # "idle"
    /\ last' = Idle
    /\ UNCHANGED <<knots, cache, cached_index, next_id, settings, alloc>>

Next ==
    \/ AddKnot
    \/ ModifyKnot
    \/ DeleteKnot
    \/ Lookup
    \/ LookupCached
    \/ Return

Spec == Init /\ [][Next]_vars

---------------------------------------------------------------------------
(* The KnotSearch methods called directly on a sorted slice, as the tests  *)
(* and benches of knot_search.rs do, with any query and any hint.          *)

Hints == {None} \cup {Some(h) : h \in 0..(MaxSlice + MaxOver)}

InitSearch ==
    /\ knots \in {new(v) : v \in SeqsUpTo(SliceKnots, MaxSlice)}
    /\ cache = None
    /\ cached_index \in Hints
    /\ last = Idle
    /\ next_id = 2
    /\ settings = DefaultSettings
    /\ alloc = NoAlloc

SearchKnotsBinary ==
    /\ last.op = "idle"
    /\ \E x \in QueryXs :
          last' = Call("search_knots_binary", x, 0,
                       search_knots_binary(knots, x), None, "none")
    /\ UNCHANGED <<knots, cache, cached_index, next_id, settings, alloc>>

SearchKnotsLinear ==
    /\ last.op = "idle"
    /\ \E x \in QueryXs :
          last' = Call("search_knots_linear", x, 0,
                       search_knots_linear(knots, x), None, "none")
    /\ UNCHANGED <<knots, cache, cached_index, next_id, settings, alloc>>

SearchKnotsLinearRev ==
    /\ last.op = "idle"
    /\ \E x \in QueryXs :
          last' = Call("search_knots_linear_rev", x, 0,
                       search_knots_linear_rev(knots, x), None, "none")
    /\ UNCHANGED <<knots, cache, cached_index, next_id, settings, alloc>>

SearchKnots ==
    /\ last.op = "idle"
    /\ \E x \in QueryXs :
          last' = Call("search_knots", x, 0, search_knots(knots, x), None,
                       "none")
    /\ UNCHANGED <<knots, cache, cached_index, next_id, settings, alloc>>

SearchKnotsWithCache ==
    /\ last.op = "idle"
    /\ \E x \in QueryXs :
          LET r == search_knots_with_cache(knots, x, cached_index)
          IN  /\ cached_index' \in HintAfter(cached_index, r)
              /\ last' = Call("search_knots_with_cache", x, 0, r.i,
                              cached_index, r.path)
    /\ UNCHANGED <<knots, cache, next_id, settings, alloc>>

NextSearch ==
    \/ SearchKnotsBinary
    \/ SearchKnotsLinear
    \/ SearchKnotsLinearRev
    \/ SearchKnots
    \/ SearchKnotsWithCache
    \/ Return

SpecSearch == InitSearch /\ [][NextSearch]_vars

---------------------------------------------------------------------------
(* lookup and lookup_cached on any sorted curve, with a cache in any       *)
(* state: a cache is a plain value that may have been used on another      *)
(* curve before.                                                           *)

CacheStates == {None} \cup {Some(h) : h \in 0..(MaxCurve + MaxOver)}

InitLookup ==
    /\ knots \in {new(v) : v \in SeqsUpTo(KnotInputs, MaxCurve)}
    /\ cache \in CacheStates
    /\ cached_index = None
    /\ last = Idle
    /\ next_id = 2
    /\ settings = DefaultSettings
    /\ alloc = NoAlloc

NextLookup == Lookup \/ LookupCached \/ Return

SpecLookup == InitLookup /\ [][NextLookup]_vars

---------------------------------------------------------------------------
(* A caller editing a curve, as the editor does: it builds knots with      *)
(* Knot { position, ..Default::default() }, which draws a fresh id from    *)
(* unique_knot_id, or copies a knot it reads from the curve (Knot is Copy  *)
(* and its fields are public) and moves the copy.                          *)

\* unique_knot_id(): the id handed out when the counter holds n.
unique_knot_id(n) == n

\* The knot a caller supplies: src = 0 builds a new knot at x, src = j > 0
\* copies the j-th knot of the curve and sets its x.
SuppliedKnot(x, src) ==
    IF src = 0 THEN MkKnot(x, 0, "Linear", unique_knot_id(next_id))
    ELSE [knots[src] EXCEPT !.position.x = x]

\* unique_knot_id has run once iff a new knot was built.
CounterAfter(src) == IF src = 0 THEN next_id + 1 ELSE next_id

EditCall(op, i, arg, ret, before) ==
    [op |-> op, i |-> i, arg |-> arg, ret |-> ret, before |-> before]

\* LookupCurve::new of knots built one after the other.
InitEdit ==
    /\ \E xs \in SeqsUpTo(KnotXs, MaxNew) :
          /\ knots = new([k \in 1..Len(xs) |->
                             MkKnot(xs[k], 0, "Linear", unique_knot_id(k))])
          /\ next_id = Len(xs) + 1
    /\ cache = None
    /\ cached_index = None
    /\ last = Idle
    /\ settings = DefaultSettings
    /\ alloc = NoAlloc

EditAddKnot ==
    /\ last.op = "idle"
    /\ Len(knots) < MaxKnots
    /\ \E x \in KnotXs, src \in 0..Len(knots) :
          /\ src = 0 => next_id <= MaxIds
          /\ LET knot == SuppliedKnot(x, src)
                 r == add_knot(knots, knot)
             IN  /\ knots' = r.knots
                 /\ last' = EditCall("add_knot", 0, knot, r.ret, knots)
          /\ next_id' = CounterAfter(src)
    /\ UNCHANGED <<cache, cached_index, settings, alloc>>

\* let r = curve.add_knot(k); curve.delete_knot(r);
EditDeleteAdded ==
    /\ last.op = "add_knot"
    /\ LET r == delete_knot(knots, last.ret)
       IN  /\ knots' = r.knots
           /\ last' = EditCall("add_knot;delete_knot", last.ret, last.arg,
                               r.ret, last.before)
    /\ UNCHANGED <<cache, cached_index, next_id, settings, alloc>>

EditModifyKnot ==
    /\ last.op = "idle"
    /\ \E i \in 0..(Len(knots) - 1 + MaxOver), x \in KnotXs,
          src \in 0..Len(knots) :
          /\ src = 0 => next_id <= MaxIds
          /\ LET new_value == SuppliedKnot(x, src)
                 r == modify_knot(knots, i, new_value)
             IN  /\ knots' = r.knots
                 /\ last' = EditCall("modify_knot", i, new_value, r.ret, knots)
          /\ next_id' = CounterAfter(src)
    /\ UNCHANGED <<cache, cached_index, settings, alloc>>

EditDeleteKnot ==
    /\ last.op = "idle"
    /\ \E i \in 0..(Len(knots) - 1 + MaxOver) :
          LET r == delete_knot(knots, i)
          IN  /\ knots' = r.knots
              /\ last' = EditCall("delete_knot", i, None, r.ret, knots)
    /\ UNCHANGED <<cache, cached_index, next_id, settings, alloc>>

PrevKnot ==
    /\ last.op = "idle"
    /\ \E i \in 0..(Len(knots) + MaxOver) :
          last' = EditCall("prev_knot", i, None, prev_knot(knots, i), knots)
    /\ UNCHANGED <<knots, cache, cached_index, next_id, settings, alloc>>

NextKnot ==
    /\ last.op = "idle"
    /\ \E i \in 0..(Len(knots) + MaxOver) :
          last' = EditCall("next_knot", i, None, next_knot(knots, i), knots)
    /\ UNCHANGED <<knots, cache, cached_index, next_id, settings, alloc>>

NextEdit ==
    \/ EditAddKnot
    \/ EditDeleteAdded
    \/ EditModifyKnot
    \/ EditDeleteKnot
    \/ PrevKnot
    \/ NextKnot
    \/ Return

SpecEdit == InitEdit /\ [][NextEdit]_vars

---------------------------------------------------------------------------
(* lookup on sorted curves long enough to have interior knots, with        *)
(* tangent slopes that differ between the two sides of a knot.             *)

\* Knot { position, interpolation, left_tangent: slope sl, right_tangent:
\* slope -sl, ..Default::default() }
EvalKnot(x, y, ip, sl) ==
    [MkKnot(x, y, ip, 1) EXCEPT !.left_tangent.slope = sl,
                                !.right_tangent.slope = 0 - sl]

\* The interpolations whose segments reach the y of their right knot.
SmoothInterpolation == {"Linear", "Cubic"}

EvalKnots ==
    {EvalKnot(x, y, ip, sl) :
        x \in KnotXs, y \in KnotYs, ip \in SmoothInterpolation, sl \in {0, 1}}

InitEval ==
    /\ knots \in {new(v) : v \in SeqsUpTo(EvalKnots, MaxEval)}
    /\ cache = None
    /\ cached_index = None
    /\ last = Idle
    /\ next_id = 2
    /\ settings = DefaultSettings
    /\ alloc = NoAlloc

NextEval == Lookup \/ Return

SpecEval == InitEval /\ [][NextEval]_vars

---------------------------------------------------------------------------
(* lookup on one Cubic segment whose tangents carry weights, with the      *)
(* max_iters and max_error of the curve set by with_max_iters and          *)
(* with_max_error.                                                         *)

\* f32::clamp(w, 0.0, 1.0)
clamp01(w) == IF ~FLe(F32(0), w) THEN F32(0)
              ELSE IF ~FLe(w, F32(1)) THEN F32(1) ELSE w

\* Knot::with_tangent_weight
with_tangent_weight(knot, side, weight) ==
    LET w == IF is_none(weight) THEN None ELSE Some(clamp01(unwrap(weight)))
    IN  IF side = "Left" THEN [knot EXCEPT !.left_tangent.weight = w]
        ELSE [knot EXCEPT !.right_tangent.weight = w]

TangentSide == {"Left", "Right"}

\* The weights a caller writes into the pub field Tangent::weight or hands
\* to with_tangent_weight: absent, the default third, and a value above 1.
WeightInputs == {None, Some(Frac(1, 3)), Some(F32(2))}

\* Knot { position, interpolation: Cubic, left_tangent: Tangent { slope: 1,
\* weight: lw, .. }, right_tangent: Tangent { slope: 0, weight: rw, .. },
\* ..Default::default() }
WeightedKnot(x, lw, rw) ==
    [MkKnot(x, ZigZag(x), "Cubic", 1) EXCEPT !.left_tangent.slope = 1,
                                             !.left_tangent.weight = lw,
                                             !.right_tangent.weight = rw]

\* The ends of the weighted segment.  find_y_given_x starts Newton's method
\* at t = x, so the segment is kept next to the unit interval on which t
\* runs.
WeightedXs == {0, 2}

WeightedKnots ==
    {WeightedKnot(x, lw, rw) :
        x \in WeightedXs, lw \in WeightInputs, rw \in WeightInputs}

\* The arguments of with_max_iters and with_max_error: no iteration, one,
\* two; a negative tolerance, none, a fine and a coarse one.
IterChoices == {0, 1, 2}
ErrorChoices == {F32(0 - 1), F32(0), Frac(1, 2), F32(1)}

\* A weight is present on one of the two tangents that face the segment.
SegmentWeighted(knot_a, knot_b) ==
    ~is_none(knot_a.right_tangent.weight)
    \/ ~is_none(knot_b.left_tangent.weight)

\* The call record of the solver: its segment, its run and its result.
SolverCall(x, coeff, run, ret) ==
    [op |-> "find_y_given_x", x |-> x, coeff |-> coeff, run |-> run,
     ret |-> ret]

\* LookupCurve::new(vec![a, b]).with_max_iters(n).with_max_error(e)
InitWeighted ==
    /\ knots \in {new(<<a, b>>) : a \in WeightedKnots, b \in WeightedKnots}
    /\ cache = None
    /\ cached_index = None
    /\ last = Idle
    /\ next_id = 2
    /\ settings \in [max_iters : IterChoices, max_error : ErrorChoices]
    /\ alloc = NoAlloc

\* The call of find_y_given_x that weighted_cubic_interp makes for a lookup
\* of x inside the segment.
FindYGivenX ==
    /\ last.op = "idle"
    /\ Len(knots) = 2
    /\ knots[1].interpolation = "Cubic"
    /\ SegmentWeighted(knots[1], knots[2])
    /\ \E x \in QueryXs :
          /\ knots[1].position.x < x
          /\ x < knots[2].position.x
          /\ LET coeff == from_bezier_points(
                              compute_bezier_to(knots[1], knots[2]))
             IN  last' = SolverCall(
                     x, coeff,
                     NewtonLoop(coeff, F32(x), settings.max_error,
                                settings.max_iters, F32(x), F32(0)),
                     find_y_given_x(coeff, F32(x), settings.max_error,
                                    settings.max_iters))
    /\ UNCHANGED <<knots, cache, cached_index, next_id, settings, alloc>>

\* The editor's weight controls:
\* curve.modify_knot(i, knot.with_tangent_weight(side, weight)).
SetTangentWeight ==
    /\ last.op = "idle"
    /\ \E i \in 0..(Len(knots) - 1), side \in TangentSide,
          weight \in WeightInputs :
          LET r == modify_knot(knots, i,
                               with_tangent_weight(knots[i + 1], side, weight))
          IN  /\ knots' = r.knots
              /\ last' = Call("modify_knot", 0, i, r.ret, None, "none")
    /\ UNCHANGED <<cache, cached_index, next_id, settings, alloc>>

NextWeighted == Lookup \/ FindYGivenX \/ SetTangentWeight \/ Return

SpecWeighted == InitWeighted /\ [][NextWeighted]_vars

---------------------------------------------------------------------------
(* asset.rs: a curve read from its textual form.  The derived Serialize    *)
(* leaves the id of a knot out of the text (skip_serializing); the derived *)
(* Deserialize keeps the knots in the order of the text and gives each of  *)
(* them an id from unique_knot_id.  The texts of the model leave           *)
(* max_iters and max_error out, so that both take their defaults.          *)

\* A knot as the text holds it.
KnotText(knot) ==
    [position |-> knot.position,
     interpolation |-> knot.interpolation,
     left_tangent |-> knot.left_tangent,
     right_tangent |-> knot.right_tangent]

\* ron::ser::to_string_pretty(curve): the knots of the text.
to_string_pretty(s) == [k \in 1..Len(s) |-> KnotText(s[k])]

\* ron::de::from_bytes::<LookupCurve>(bytes), with the counter at n.
from_bytes(text, n) ==
    [knots |-> [k \in 1..Len(text) |->
                   [position |-> text[k].position,
                    interpolation |-> text[k].interpolation,
                    left_tangent |-> text[k].left_tangent,
                    right_tangent |-> text[k].right_tangent,
                    id |-> unique_knot_id(n + k - 1)]],
     max_iters |-> max_iters_default,
     max_error |-> max_error_default]

\* The texts a file can hold: knots in any order.
FileTexts == {to_string_pretty(v) : v \in SeqsUpTo(CurveKnots, MaxFile)}

AssetCall(op, text) == [op |-> op, text |-> text]

InitAsset ==
    /\ knots = default
    /\ cache = None
    /\ cached_index = None
    /\ last = Idle
    /\ next_id = 1
    /\ settings = DefaultSettings
    /\ alloc = NoAlloc

\* LookupCurveAssetLoader::load
Load ==
    /\ last.op = "idle"
    /\ \E text \in FileTexts :
          /\ next_id + Len(text) - 1 <= MaxIds
          /\ LET c == from_bytes(text, next_id)
             IN  /\ knots' = c.knots
                 /\ settings' = [max_iters |-> c.max_iters,
                                 max_error |-> c.max_error]
          /\ next_id' = next_id + Len(text)
          /\ last' = AssetCall("load", text)
    /\ UNCHANGED <<cache, cached_index, alloc>>

\* save_lookup_curve
Save ==
    /\ last.op = "idle"
    /\ last' = AssetCall("save_lookup_curve", to_string_pretty(knots))
    /\ UNCHANGED <<knots, cache, cached_index, next_id, settings, alloc>>

NextAsset == Load \/ Save \/ Lookup \/ Return

SpecAsset == InitAsset /\ [][NextAsset]_vars

---------------------------------------------------------------------------
(* unique_knot_id called from several threads.  KNOT_ID_COUNTER is one     *)
(* static AtomicUsize starting at 1; fetch_add is a single atomic          *)
(* read-modify-write, so a call is one step of the thread that makes it.   *)
(* alloc.log holds the calls in the order of the counter's modifications,  *)
(* alloc.held the knots built from the ids in the order the threads        *)
(* finished them.                                                          *)

Threads == 1..MaxThreads

\* AtomicUsize::fetch_add(val, Ordering::Relaxed) on a counter holding c:
\* the value returned and the value stored.
fetch_add_no_store(c, val) == [old |-> c, new |-> c]

fetch_add(c, val) == [old |-> c, new |-> c + val]

\* The entries of a log that belong to thread t.
OfThread(log, t) == SelectSeq(log, LAMBDA e : e.thread = t)

\* Thread t holds an id it has not built its knot from yet.
HasPending(t) == Len(OfThread(alloc.log, t)) > Len(OfThread(alloc.held, t))

InitIds ==
    /\ knots = default
    /\ cache = None
    /\ cached_index = None
    /\ last = Idle
    /\ next_id = 1
    /\ settings = DefaultSettings
    /\ alloc = NoAlloc

\* Thread t runs KNOT_ID_COUNTER.fetch_add(1, Ordering::Relaxed).
FetchAdd(t) ==
    /\ ~HasPending(t)
    /\ Len(alloc.log) < MaxIds
    /\ LET r == fetch_add(next_id, 1)
       IN  /\ next_id' = r.new
           /\ alloc' = [alloc EXCEPT
                           !.log = Append(@, [thread |-> t, id |-> r.old])]
    /\ UNCHANGED <<knots, cache, cached_index, last, settings>>

\* Thread t builds its knot from the id unique_knot_id returned to it.
BuildKnot(t) ==
    /\ HasPending(t)
    /\ LET mine == OfThread(alloc.log, t)
       IN  alloc' = [alloc EXCEPT !.held = Append(@, mine[Len(mine)])]
    /\ UNCHANGED <<knots, cache, cached_index, last, next_id, settings>>

NextIds == \E t \in Threads : FetchAdd(t) \/ BuildKnot(t)

SpecIds == InitIds /\ [][NextIds]_vars

---------------------------------------------------------------------------
(* Properties.                                                             *)

SetMax(S) == CHOOSE m \in S : \A n \in S : n <= m
SetMin(S) == CHOOSE m \in S : \A n \in S : m <= n

FirstX(s) == s[1].position.x
LastX(s) == s[Len(s)].position.x

\* x lies strictly between the first and the last knot of s.
InsideKnotRange(s, x) == Len(s) >= 2 /\ FirstX(s) < x /\ x < LastX(s)

\* The 0-based indices of the knots of s at x, left of x, not right of x.
KnotsAt(s, x) == {i \in 0..(Len(s) - 1) : s[i + 1].position.x = x}
KnotsLt(s, x) == {i \in 0..(Len(s) - 1) : s[i + 1].position.x < x}
KnotsLe(s, x) == {i \in 0..(Len(s) - 1) : s[i + 1].position.x <= x}

PlainSearches ==
    {"search_knots_binary", "search_knots_linear", "search_knots_linear_rev",
     "search_knots"}
Searches == PlainSearches \cup {"search_knots_with_cache"}
Lookups == {"lookup", "lookup_cached"}

\* C1.  Under Spec: in every state reached from LookupCurve::new or
\* LookupCurve::default by add_knot, modify_knot and delete_knot, the knots
\* are sorted non-decreasing by position.x.
C1_KnotsSorted == IsSorted(knots)

\* modify_knot has moved a knot of a three-knot curve to another index.
C1_Witness ==
    /\ last.op = "modify_knot"
    /\ IsIndex(last.ret)
    /\ last.ret # last.i
    /\ Len(knots) = 3

\* C2.  Under SpecSearch: on a slice of at least two knots and for a query
\* strictly between the first and the last knot, search_knots_with_cache
\* returns the index search_knots returns, whatever the hint it starts
\* from (None, an index of the slice, an index past the end) and whatever
\* earlier queries have left in the hint.
C2_CachedSearchAgrees ==
    (last.op = "search_knots_with_cache" /\ InsideKnotRange(knots, last.x))
        => last.ret = search_knots(knots, last.x)

\* search_knots_with_cache, starting from a hint at the middle knot of three,
\* answered a query left of it by the reverse linear scan.
C2_Witness ==
    /\ last.op = "search_knots_with_cache"
    /\ InsideKnotRange(knots, last.x)
    /\ Len(knots) = 3
    /\ last.hint = Some(1)
    /\ last.path = "rev"
    /\ last.ret = 0

C4_SearchesAgree ==
    (last.op \in PlainSearches /\ InsideKnotRange(knots, last.x)) =>
        /\ last.ret = search_knots_binary(knots, last.x)
        /\ last.ret = search_knots_linear(knots, last.x)
        /\ last.ret = search_knots_linear_rev(knots, last.x)
        /\ last.ret = search_knots(knots, last.x)

\* The reverse linear search answered a query at the x of the middle knot
\* of three.
C4_Witness ==
    /\ last.op = "search_knots_linear_rev"
    /\ InsideKnotRange(knots, last.x)
    /\ Len(knots) = 3
    /\ knots[2].position.x = last.x
    /\ last.ret = 0

\* C5 as claimed.  Under SpecSearch: for a query strictly inside the knot
\* range, a knot search returns the greatest index i with knots[i].x <= x,
\* or, when knots lie at x, the lowest index of a knot at x.
C5_Original ==
    (last.op \in Searches /\ InsideKnotRange(knots, last.x)) =>
        last.ret = IF KnotsAt(knots, last.x) # {}
                   THEN SetMin(KnotsAt(knots, last.x))
                   ELSE SetMax(KnotsLe(knots, last.x))

\* C5 amended.  Under SpecSearch: for a query strictly inside the knot
\* range, a knot search returns the greatest index i with knots[i].x < x:
\* the greatest i with knots[i].x <= x when no knot lies at x, and the
\* index just before the lowest knot at x when knots lie at x.
C5_Amended ==
    (last.op \in Searches /\ InsideKnotRange(knots, last.x)) =>
        /\ last.ret = SetMax(KnotsLt(knots, last.x))
        /\ last.ret = IF KnotsAt(knots, last.x) # {}
                      THEN SetMin(KnotsAt(knots, last.x)) - 1
                      ELSE SetMax(KnotsLe(knots, last.x))

\* The binary search answered a query at the x shared by two knots.
C5_Witness ==
    /\ last.op = "search_knots_binary"
    /\ InsideKnotRange(knots, last.x)
    /\ Cardinality(KnotsAt(knots, last.x)) = 2
    /\ last.ret = SetMin(KnotsAt(knots, last.x)) - 1

\* C6 as claimed.  Under SpecSearch: on a slice of at least two knots and
\* for knots[0].x <= x < knots[last].x, each of the four plain searches
\* returns an index in 0 .. len - 2, with no underflow and no failed unwrap.
C6_Original ==
    (/\ last.op \in PlainSearches
     /\ Len(knots) >= 2
     /\ FirstX(knots) <= last.x
     /\ last.x < LastX(knots)) => last.ret \in 0..(Len(knots) - 2)

\* C7 as claimed.  Under Spec: on a segment whose left knot a has Constant
\* interpolation and whose right knot is b, lookup(x) is a.y for every x
\* with a.x <= x < b.x.
C7_Original ==
    last.op = "lookup" =>
        \A i \in 1..(Len(knots) - 1) :
            (/\ knots[i].interpolation = "Constant"
             /\ knots[i].position.x <= last.x
             /\ last.x < knots[i + 1].position.x)
                => last.ret = F32(knots[i].position.y)

\* C8.  Under SpecLookup: on a curve with at least one knot, lookup and
\* lookup_cached return the first knot's y for every x <= the first knot's
\* x, whatever the cache holds.
C8_FlatLeft ==
    (last.op \in Lookups /\ Len(knots) >= 1 /\ last.x <= FirstX(knots))
        => last.ret = F32(knots[1].position.y)

\* lookup_cached, holding a cached index, answered a query at the x of the
\* first of two knots that differ in y.
C8_Witness ==
    /\ last.op = "lookup_cached"
    /\ ~is_none(last.hint)
    /\ Len(knots) = 2
    /\ last.x = FirstX(knots)
    /\ knots[1].position.y # knots[2].position.y
    /\ last.ret = F32(knots[1].position.y)

\* C9 as claimed.  Under SpecLookup: on a curve with at least one knot,
\* knots sharing an x included, lookup(x) is the last knot's y for every
\* x >= the last knot's x.
C9_Original ==
    (last.op = "lookup" /\ Len(knots) >= 1 /\ last.x >= LastX(knots))
        => last.ret = F32(knots[Len(knots)].position.y)

\* C9 amended.  Under SpecLookup: on a curve with at least one knot,
\* lookup(x) is the last knot's y for every x >= the last knot's x that is
\* also > the first knot's x (or on a single knot); for x equal to the x
\* that all of several knots share it is the first knot's y.
C9_Amended ==
    /\ (/\ last.op = "lookup"
        /\ Len(knots) >= 1
        /\ last.x >= LastX(knots)
        /\ (Len(knots) = 1 \/ last.x > FirstX(knots)))
           => last.ret = F32(knots[Len(knots)].position.y)
    /\ (/\ last.op = "lookup"
        /\ Len(knots) >= 2
        /\ last.x = FirstX(knots)
        /\ last.x = LastX(knots))
           => last.ret = F32(knots[1].position.y)

\* lookup answered a query at the x of the last of two knots, which share
\* no x and differ in y.
C9_Witness ==
    /\ last.op = "lookup"
    /\ Len(knots) = 2
    /\ FirstX(knots) < LastX(knots)
    /\ last.x = LastX(knots)
    /\ knots[1].position.y # knots[2].position.y
    /\ last.ret = F32(knots[2].position.y)

\* C10.  Under Spec: on a curve without knots lookup and lookup_cached
\* return 0.0, and on a curve with one knot that knot's y, for every x and
\* whatever the cache holds; neither runs a knot search nor panics.
C10_DegenerateCurves ==
    last.op \in Lookups =>
        /\ Len(knots) = 0 => (last.ret = F32(0) /\ last.path = "none")
        /\ Len(knots) = 1 =>
              (last.ret = F32(knots[1].position.y) /\ last.path = "none")

\* lookup_cached was called on a curve whose knots had all been deleted,
\* with a cache still holding an index.
C10_Witness ==
    /\ last.op = "lookup_cached"
    /\ Len(knots) = 0
    /\ ~is_none(last.hint)
    /\ last.ret = F32(0)

\* C11.  Under SpecEdit: modify_knot(i, knots[i]) with i in range returns i
\* and leaves the whole knot sequence as it was.
C11_ModifySameValue ==
    (/\ last.op = "modify_knot"
     /\ last.i < Len(last.before)
     /\ last.arg = last.before[last.i + 1])
        => (last.ret = last.i /\ knots = last.before)

\* modify_knot was handed the value of a knot that follows another knot of
\* the same x and a different id.
C11_Witness ==
    /\ last.op = "modify_knot"
    /\ last.i >= 1
    /\ last.i < Len(last.before)
    /\ last.arg = last.before[last.i + 1]
    /\ last.before[last.i].position.x = last.arg.position.x
    /\ last.before[last.i].id # last.arg.id

\* C12.  Under SpecEdit: after r = add_knot(k) followed at once by
\* delete_knot(r) the knot sequence is the one from before add_knot: the
\* same knots with the same ids in the same order, also when k.x is the x
\* of knots already in the curve.
C12_AddDeleteRoundTrip ==
    last.op = "add_knot;delete_knot" => knots = last.before

\* The knot added and deleted again had the x of a knot of another id in a
\* curve of at least two knots.
C12_Witness ==
    /\ last.op = "add_knot;delete_knot"
    /\ Len(last.before) >= 2
    /\ \E j \in 1..Len(last.before) :
          /\ last.before[j].position.x = last.arg.position.x
          /\ last.before[j].id # last.arg.id

\* C13.  Under SpecEdit: modify_knot(i, v) with i in range returns an index
\* j with knots[j] = v afterwards; the length is unchanged, and the other
\* knots are the old knots without the old knots[i], in their old order.
C13_ModifyRelocates ==
    (last.op = "modify_knot" /\ last.i < Len(last.before)) =>
        /\ IsIndex(last.ret)
        /\ last.ret < Len(knots)
        /\ knots[last.ret + 1] = last.arg
        /\ Len(knots) = Len(last.before)
        /\ VecRemove(knots, last.ret) = VecRemove(last.before, last.i)

\* modify_knot moved a knot from one end of a three-knot curve to the other.
C13_Witness ==
    /\ last.op = "modify_knot"
    /\ Len(last.before) = 3
    /\ last.i = 0
    /\ last.ret = 2
    /\ knots[3] = last.arg

\* C14.  Under SpecEdit: add_knot(k) returns an index r with knots[r] = k
\* afterwards; the length has grown by one, removing position r gives the
\* old sequence, and the sequence and the index are those of an insertion
\* at partition_point(|e| e.x < k.x), on the append path too.
C14_AddInserts ==
    last.op = "add_knot" =>
        LET pp == partition_point(last.before, last.arg.position.x)
        IN  /\ IsIndex(last.ret)
            /\ last.ret < Len(knots)
            /\ knots[last.ret + 1] = last.arg
            /\ Len(knots) = Len(last.before) + 1
            /\ VecRemove(knots, last.ret) = last.before
            /\ last.ret = pp
            /\ knots = VecInsert(last.before, pp, last.arg)

\* add_knot appended a knot right of the last knot of a curve of two.
C14_Witness ==
    /\ last.op = "add_knot"
    /\ Len(last.before) = 2
    /\ last.arg.position.x > LastX(last.before)
    /\ last.ret = 2

\* C15 as claimed.  Under SpecEdit: no two knots of the curve have the same
\* id.
C15_Original ==
    \A i, j \in 1..Len(knots) : i # j => knots[i].id # knots[j].id

\* C16 as claimed.  Under SpecEdit: prev_knot(i) is None for i = 0 and
\* knots[i - 1] otherwise; next_knot(i) is knots[i + 1] when i + 1 < len and
\* None otherwise, on the empty curve too, without a panic.
C16_Original ==
    /\ (last.op = "prev_knot" /\ last.i <= Len(knots)) =>
          last.ret = Returned(IF last.i = 0 THEN None
                              ELSE Some(knots[last.i]))
    /\ last.op = "next_knot" =>
          last.ret = Returned(IF last.i + 1 < Len(knots)
                              THEN Some(knots[last.i + 2])
                              ELSE None)

\* C17.  Under SpecSearch: when search_knots_with_cache returns an index i,
\* the hint holds Some(i), whether the full search, the reverse scan of the
\* prefix or the forward scan of the suffix found i.
C17_HintUpdated ==
    (last.op = "search_knots_with_cache" /\ IsIndex(last.ret)) =>
        /\ last.path \in {"full", "rev", "fwd"}
        /\ cached_index = Some(last.ret)

\* The forward scan from a hint at the first knot found another index.
C17_Witness ==
    /\ last.op = "search_knots_with_cache"
    /\ last.hint = Some(0)
    /\ last.path = "fwd"
    /\ last.ret = 1
    /\ cached_index = Some(1)

\* The knots at indices i and i + 1 (0-based) of s bracket x strictly.
StrictlyInside(s, i, x) ==
    /\ i + 2 <= Len(s)
    /\ s[i + 1].position.x < x
    /\ x < s[i + 2].position.x

\* a.y + (b.y - a.y) * (x - a.x) / (b.x - a.x)
LinearForm(a, b, x) ==
    Frac(a.position.y * (b.position.x - a.position.x)
           + (b.position.y - a.position.y) * (x - a.position.x),
         b.position.x - a.position.x)

\* The two-knot linear curve (0,0), (1,1) with x in quarters: a query q
\* stands for x = q / 4.
LinearScenario == <<MkKnot(0, 0, "Linear", 1), MkKnot(4, 1, "Linear", 2)>>

\* C18.  Under SpecEval: for x strictly inside a segment whose left knot a
\* has Linear interpolation and whose right knot is b, lookup(x) is
\* a.y + (b.y - a.y) * (x - a.x) / (b.x - a.x); on the curve (0,0), (1,1)
\* lookup(0.25) = 0.25, lookup(-1.0) = 0.0 and lookup(2.0) = 1.0.
C18_LinearFormula ==
    /\ last.op = "lookup" =>
          \A i \in 0..(Len(knots) - 2) :
              (/\ knots[i + 1].interpolation = "Linear"
               /\ StrictlyInside(knots, i, last.x))
                  => last.ret = LinearForm(knots[i + 1], knots[i + 2], last.x)
    /\ lookup(LinearScenario, 1) = Frac(1, 4)
    /\ lookup(LinearScenario, 0 - 4) = F32(0)
    /\ lookup(LinearScenario, 8) = F32(1)

\* lookup returned 1/4 a quarter of the way along a Linear segment that
\* rises from 0 to 1.
C18_Witness ==
    /\ last.op = "lookup"
    /\ Len(knots) >= 2
    /\ knots[1].interpolation = "Linear"
    /\ knots[1].position = [x |-> 0, y |-> 0]
    /\ knots[2].position = [x |-> 4, y |-> 1]
    /\ last.x = 1
    /\ last.ret = Frac(1, 4)

\* The formula of the segment from a to b at x, for the Linear and the
\* unweighted Cubic interpolation of a.
SegmentFormula(a, b, x) ==
    IF a.interpolation = "Linear"
    THEN lerp_y(a, b, Frac(x - a.position.x, b.position.x - a.position.x))
    ELSE unweighted_cubic_interp(a, b, x)

\* Both segments at the interior knot at index j (1-based) are Linear or
\* unweighted Cubic.
SmoothAround(s, j) ==
    /\ s[j - 1].interpolation \in SmoothInterpolation
    /\ s[j].interpolation \in SmoothInterpolation
    /\ is_none(s[j - 1].right_tangent.weight)
    /\ is_none(s[j].left_tangent.weight)
    /\ is_none(s[j].right_tangent.weight)
    /\ is_none(s[j + 1].left_tangent.weight)

\* C19 as claimed.  Under SpecEval: for every interior knot k between Linear
\* or unweighted Cubic segments, lookup(k.x) is k.y, and so are the formula
\* of the segment ending at k and the formula of the segment starting at k,
\* both evaluated at k.x.
C19_Original ==
    last.op = "lookup" =>
        \A j \in 2..(Len(knots) - 1) :
            (SmoothAround(knots, j) /\ last.x = knots[j].position.x) =>
                /\ last.ret = F32(knots[j].position.y)
                /\ SegmentFormula(knots[j - 1], knots[j], last.x)
                      = F32(knots[j].position.y)
                /\ SegmentFormula(knots[j], knots[j + 1], last.x)
                      = F32(knots[j].position.y)

\* C19 amended.  Under SpecEval: the same for every interior knot k whose x
\* lies strictly between the x of its two neighbours.
C19_Amended ==
    last.op = "lookup" =>
        \A j \in 2..(Len(knots) - 1) :
            (/\ SmoothAround(knots, j)
             /\ knots[j - 1].position.x < knots[j].position.x
             /\ knots[j].position.x < knots[j + 1].position.x
             /\ last.x = knots[j].position.x) =>
                /\ last.ret = F32(knots[j].position.y)
                /\ SegmentFormula(knots[j - 1], knots[j], last.x)
                      = F32(knots[j].position.y)
                /\ SegmentFormula(knots[j], knots[j + 1], last.x)
                      = F32(knots[j].position.y)

\* lookup was asked at the x of the middle knot of three, which ends a
\* Cubic segment with a slope at its end and differs in y from both
\* neighbours.
C19_Witness ==
    /\ last.op = "lookup"
    /\ Len(knots) = 3
    /\ knots[1].position.x < knots[2].position.x
    /\ knots[2].position.x < knots[3].position.x
    /\ last.x = knots[2].position.x
    /\ knots[1].interpolation = "Cubic"
    /\ knots[2].left_tangent.slope # 0
    /\ knots[1].position.y # knots[2].position.y
    /\ knots[3].position.y # knots[2].position.y
    /\ last.ret = F32(knots[2].position.y)

\* h00(s) a.y + h10(s) m0 + h11(s) m1 + h01(s) b.y with s = (x - a.x) / dx,
\* m0 = a.right_tangent.slope dx, m1 = b.left_tangent.slope dx, in the
\* factored form of the Hermite basis:
\* h00 = (1 + 2s)(1 - s)^2, h10 = s (1 - s)^2, h11 = s^2 (s - 1),
\* h01 = s^2 (3 - 2s).
HermiteForm(a, b, x) ==
    LET dx == F32(b.position.x - a.position.x)
        s == Frac(x - a.position.x, b.position.x - a.position.x)
        one_s == FSub(F32(1), s)
        h00 == FMul(FAdd(F32(1), FMul(F32(2), s)), FMul(one_s, one_s))
        h10 == FMul(s, FMul(one_s, one_s))
        h11 == FMul(FMul(s, s), FSub(s, F32(1)))
        h01 == FMul(FMul(s, s), FSub(F32(3), FMul(F32(2), s)))
        m0 == FMul(F32(a.right_tangent.slope), dx)
        m1 == FMul(F32(b.left_tangent.slope), dx)
    IN  FAdd(FAdd(FMul(h00, F32(a.position.y)), FMul(h10, m0)),
             FAdd(FMul(h11, m1), FMul(h01, F32(b.position.y))))

\* The Cubic segment from (0,0) to (1,1) with both slopes 0, with x in
\* quarters: a query q stands for x = q / 4.
CubicScenario == <<EvalKnot(0, 0, "Cubic", 0), EvalKnot(4, 1, "Cubic", 0)>>

\* C20.  Under SpecEval: for x strictly inside a Cubic segment from a to b
\* with neither a.right_tangent.weight nor b.left_tangent.weight set,
\* lookup(x) is the Hermite closed form, which unweighted_cubic_interp
\* evaluates directly; between (0,0) and (1,1) with slopes 0,
\* lookup(0.5) = 0.5.
C20_HermiteForm ==
    /\ last.op = "lookup" =>
          \A i \in 0..(Len(knots) - 2) :
              (/\ knots[i + 1].interpolation = "Cubic"
               /\ is_none(knots[i + 1].right_tangent.weight)
               /\ is_none(knots[i + 2].left_tangent.weight)
               /\ StrictlyInside(knots, i, last.x))
                  => /\ last.ret = HermiteForm(knots[i + 1], knots[i + 2],
                                               last.x)
                     /\ last.ret = unweighted_cubic_interp(
                                       knots[i + 1], knots[i + 2], last.x)
    /\ lookup(CubicScenario, 2) = Frac(1, 2)

\* lookup was asked a quarter of the way along a Cubic segment whose two
\* tangent slopes differ.
C20_Witness ==
    /\ last.op = "lookup"
    /\ Len(knots) >= 2
    /\ knots[1].interpolation = "Cubic"
    /\ knots[1].position.x = 0
    /\ knots[2].position.x = 4
    /\ knots[1].right_tangent.slope # knots[2].left_tangent.slope
    /\ knots[1].position.y # knots[2].position.y
    /\ last.x = 1
    /\ last.ret = HermiteForm(knots[1], knots[2], 1)

\* C22.  Under SpecEdit: modify_knot(i, v) and delete_knot(i) with i >= len,
\* any i on the empty curve included, panic instead of returning, and the
\* knot sequence is the one from before the call.
C22_OutOfRangePanics ==
    (last.op \in {"modify_knot", "delete_knot"} /\ last.i >= Len(last.before))
        => (last.ret = IndexOOB /\ knots = last.before)

\* delete_knot was called on a curve without knots.
C22_Witness ==
    /\ last.op = "delete_knot"
    /\ last.before = <<>>
    /\ last.i = 0
    /\ last.ret = IndexOOB

\* s with the interpolation of its last knot set to ip.
WithLastInterpolation(s, ip) ==
    IF s = <<>> THEN s ELSE [s EXCEPT ![Len(s)].interpolation = ip]

\* C25.  Under Spec: lookup(x) returns the same value on every curve that
\* differs from the current one only in the interpolation of the last
\* knot.
C25_LastInterpolationUnused ==
    last.op = "lookup" =>
        \A ip \in KnotInterpolation :
            lookup(WithLastInterpolation(knots, ip), last.x) = last.ret

\* lookup interpolated on the last segment of a three-knot curve whose last
\* two knots differ in y and in interpolation.
C25_Witness ==
    /\ last.op = "lookup"
    /\ Len(knots) = 3
    /\ last.path # "none"
    /\ last.i = 1
    /\ knots[2].interpolation = "Linear"
    /\ knots[3].interpolation = "Constant"
    /\ knots[2].position.y # knots[3].position.y

\* C28.  Under Spec: whenever lookup or lookup_cached reaches the
\* interpolation step, the index i it uses satisfies 0 <= i <= len - 2 and
\* knots[i].x < x <= knots[i + 1].x, so that knots[i + 1] exists and the
\* width of the segment is positive.
C28_SegmentBracketsQuery ==
    (last.op \in Lookups /\ last.path # "none") =>
        /\ IsIndex(last.i)
        /\ last.i <= Len(knots) - 2
        /\ knots[last.i + 1].position.x < last.x
        /\ last.x <= knots[last.i + 2].position.x
        /\ knots[last.i + 2].position.x - knots[last.i + 1].position.x > 0

\* lookup_cached interpolated on a curve whose first two knots share an x:
\* the segment used starts at the second of them.
C28_Witness ==
    /\ last.op = "lookup_cached"
    /\ last.path # "none"
    /\ Len(knots) = 3
    /\ knots[1].position.x = knots[2].position.x
    /\ last.i = 1

\* lookup_internal returns before any search for this curve and query.
ShortCircuits(s, x) ==
    \/ Len(s) <= 1
    \/ x <= FirstX(s)
    \/ x >= LastX(s)

\* C29.  Under Spec: lookup_cached leaves the cache as it was when the curve
\* is empty or has one knot or x <= first.x or x >= last.x; otherwise the
\* cache holds afterwards an index i <= len - 2, the index of the segment
\* that brackets x on the curve.
C29_CacheFrame ==
    last.op = "lookup_cached" =>
        /\ ShortCircuits(knots, last.x) =>
              (cache = last.hint /\ last.path = "none")
        /\ ~ShortCircuits(knots, last.x) =>
              /\ ~is_none(cache)
              /\ IsIndex(unwrap(cache))
              /\ unwrap(cache) <= Len(knots) - 2
              /\ unwrap(cache) = SetMax(KnotsLt(knots, last.x))
              /\ last.x <= knots[unwrap(cache) + 2].position.x

\* lookup_cached returned the last knot's y for an x right of it and left
\* the index in the cache.
C29_Witness ==
    /\ last.op = "lookup_cached"
    /\ Len(knots) = 3
    /\ last.x > LastX(knots)
    /\ ~is_none(last.hint)
    /\ cache = last.hint

\* C30 as claimed.  Under SpecAsset: the knots of a curve the asset loader
\* has read are sorted non-decreasing by position.x, whatever their order
\* in the file.
C30_Original == last.op = "load" => IsSorted(knots)

\* C27.  Under SpecIds: the ids unique_knot_id has returned, taken in the
\* order of the calls on the process-wide counter, are strictly increasing,
\* hence pairwise distinct, whichever threads made the calls and however
\* the threads interleave; the knots built from them carry pairwise
\* distinct ids.
C27_IdsDistinctIncreasing ==
    /\ \A i \in 1..Len(alloc.log) : \A j \in 1..Len(alloc.log) :
          i < j => alloc.log[i].id < alloc.log[j].id
    /\ \A i \in 1..Len(alloc.held) : \A j \in 1..Len(alloc.held) :
          i # j => alloc.held[i].id # alloc.held[j].id

\* Three calls from at least two threads, with the knots finished in an
\* order other than the order of the calls.
C27_Witness ==
    /\ Len(alloc.log) = MaxIds
    /\ Len(alloc.held) >= 2
    /\ alloc.log[1].thread # alloc.log[2].thread
    /\ alloc.held[1].id > alloc.held[2].id

\* A lookup that interpolated on a Cubic segment.
CubicLookup ==
    /\ last.op = "lookup"
    /\ last.path # "none"
    /\ knots[last.i + 1].interpolation = "Cubic"

\* The curve with the weights of the two tangents that face away from the
\* segment at index i replaced.
WithOuterWeights(s, i, lw, rw) ==
    [s EXCEPT ![i + 1].left_tangent.weight = lw,
              ![i + 2].right_tangent.weight = rw]

\* The error |position(t).x - x| of the solver call in `last` at t.
ErrorAt(t) == FAbs(FSub(position(last.coeff, 1, t), F32(last.x)))

\* C21 as claimed.  Under SpecWeighted: with max_iters = 0 the solver
\* returns position(x).y, the y of the segment at the initial guess t = x.
C21_Original ==
    (last.op = "find_y_given_x" /\ settings.max_iters = 0)
        => last.ret = position(last.coeff, 2, F32(last.x))

\* C23.  Under SpecWeighted: a lookup that interpolates on a Cubic segment
\* from a to b returns the result of the Newton-Raphson path exactly when
\* a.right_tangent.weight or b.left_tangent.weight is present, whatever its
\* value, and the closed-form Hermite result otherwise; the result is the
\* same whatever a.left_tangent.weight and b.right_tangent.weight are.
C23_PathByFacingWeights ==
    CubicLookup =>
        LET a == knots[last.i + 1]
            b == knots[last.i + 2]
        IN  /\ last.ret =
                  (IF SegmentWeighted(a, b)
                   THEN weighted_cubic_interp(a, b, last.x, settings.max_error,
                                              settings.max_iters)
                   ELSE unweighted_cubic_interp(a, b, last.x))
            /\ \A lw \in WeightInputs, rw \in WeightInputs :
                  lookup(WithOuterWeights(knots, last.i, lw, rw), last.x)
                      = last.ret

\* A lookup on a segment with a weight on b's left tangent only, among the
\* four tangents, whose result is not the Hermite value.
C23_Witness ==
    /\ CubicLookup
    /\ is_none(knots[last.i + 1].left_tangent.weight)
    /\ is_none(knots[last.i + 1].right_tangent.weight)
    /\ ~is_none(knots[last.i + 2].left_tangent.weight)
    /\ is_none(knots[last.i + 2].right_tangent.weight)
    /\ last.ret # unweighted_cubic_interp(knots[last.i + 1],
                                          knots[last.i + 2], last.x)

\* C24.  Under SpecWeighted: find_y_given_x evaluates position at most
\* max_iters times, whatever max_error is; the first evaluation is at
\* t = x and each later one at the Newton update of the one before; no
\* evaluation but the last has |position(t).x - x| <= max_error, and the
\* last has it whenever fewer than max_iters were made; the value returned
\* is the y of the last position evaluated.
C24_SolverTerminates ==
    last.op = "find_y_given_x" =>
        LET ts == last.run.ts
            n == Len(ts)
            x == F32(last.x)
        IN  /\ n <= settings.max_iters
            /\ settings.max_iters > 0 => (n >= 1 /\ ts[1] = x)
            /\ \A k \in 1..(n - 1) :
                  /\ ~FLe(ErrorAt(ts[k]), settings.max_error)
                  /\ ts[k + 1] =
                        FSub(ts[k],
                             FDiv(FSub(position(last.coeff, 1, ts[k]), x),
                                  velocity(last.coeff, 1, ts[k])))
            /\ n < settings.max_iters
                  => FLe(ErrorAt(ts[n]), settings.max_error)
            /\ last.run.broke
                  = (n >= 1 /\ FLe(ErrorAt(ts[n]), settings.max_error))
            /\ n >= 1 => last.ret = position(last.coeff, 2, ts[n])

\* A run with a negative max_error that used both of its two iterations
\* and returned the y at the second iterate, not at the first.
C24_Witness ==
    /\ last.op = "find_y_given_x"
    /\ settings.max_iters = 2
    /\ ~FLe(F32(0), settings.max_error)
    /\ Len(last.run.ts) = 2
    /\ ~last.run.broke
    /\ last.ret = position(last.coeff, 2, last.run.ts[2])
    /\ last.ret # position(last.coeff, 2, last.run.ts[1])

\* C26 as claimed.  Under SpecWeighted: whenever lookup takes the weighted
\* path, every weight present on a.right_tangent or b.left_tangent, which
\* compute_bezier_to uses to place a control point, lies in [0, 1].
C26_Original ==
    (CubicLookup
     /\ SegmentWeighted(knots[last.i + 1], knots[last.i + 2]))
        => \A w \in {knots[last.i + 1].right_tangent.weight,
                     knots[last.i + 2].left_tangent.weight} :
              is_none(w) \/ (FLe(F32(0), unwrap(w)) /\ FLe(unwrap(w), F32(1)))

=============================================================================
